---- MODULE Spec2Model ----
(***************************************************************************)
(* A model of the algorithmic core of cortes-automaticos:                  *)
(*   - removeOverlaps and chunkSRTByDuration (src/src/services/analysis.js)*)
(*   - parseSRT and analyzeTranscription (the same file)                   *)
(*   - the clip loop of the pipeline (src/server.js, process_local.js)     *)
(*   - the sound-segment inversion of removeSilence                        *)
(*     (src/src/services/videoProcessor.js)                                *)
(*                                                                         *)
(* Times are fixed-point integers.  Candidate times (removeOverlaps) are   *)
(* counted in quarter seconds, so the 0.5 s buffer is 2.  Media times      *)
(* (removeSilence) are counted in twentieths of a second, so the 0.1 s     *)
(* padding and the 0.1 s gap threshold are 2.  Subtitle times              *)
(* (chunkSRTByDuration) are whole seconds.                                 *)
(***************************************************************************)
EXTENDS Integers, Sequences, FiniteSets, TLC

VARIABLES
    momentsMap,   \* removeOverlaps: the argument, entries in Object.entries order
    momentsNow,   \* removeOverlaps: the caller's map and its values as they are now
    result,       \* removeOverlaps: the returned map, entries in insertion order
    again,        \* removeOverlaps applied to its own result
    opc,          \* "idle", or "input" -> "resolved" -> "again"
    entries,          \* chunkSRTByDuration: the parsed entries
    durationMinutes,  \* chunkSRTByDuration: the window, in minutes
    chunks,           \* chunkSRTByDuration: the returned chunks
    cpc,              \* "idle", or "input" -> "chunked"
    totalDuration,    \* removeSilence: getDuration(inputPath)
    silences,         \* removeSilence: the detected silence intervals
    sounds,           \* removeSilence: the sound segments computed
    outcome,          \* removeSilence: "none", "copied" or "render"
    finalFilter,      \* removeSilence: the filter written for the render, if any
    spc,              \* "idle", or "detecting" -> "done"
    srtLines,         \* parseSRT: the lines the document is written from
    eol,              \* parseSRT: the line ending of the document
    parsed,           \* parseSRT: the returned entries
    ppc,              \* "idle", or "input" -> "parsed"
    numChunks,        \* analyzeTranscription: chunks.length (0: nothing was parsed)
    ci,               \* analyzeTranscription: the loop index i
    submitted,        \* analyzeTranscription: the chunk indices given to analyzeChunk
    replies,          \* analyzeTranscription: what the collaborator answered, per call
    allMoments,       \* analyzeTranscription: the shared candidate map
    finalMoments,     \* analyzeTranscription: the returned map
    apc,              \* analyzeTranscription: "idle", "running", "returned", "thrown"
    front,            \* the pipeline: "server" (server.js) or "cli" (process_local.js)
    viralMoments,     \* the pipeline: the candidates to render, in key order
    existing,         \* the pipeline: keys whose output file exists before the loop
    clipIndex,        \* the pipeline: how many keys the clip loop has gone through
    processedClips,   \* the pipeline: the clips pushed so far (server)
    rendered,         \* the pipeline: keys whose processVideo resolved in this run
    failedClip,       \* the pipeline: the key whose processVideo rejected, or ""
    report,           \* the pipeline: the response body (server) or the console (cli)
    qpc               \* the pipeline's clip loop: "idle", "rendering", "done"

overlapVars == <<momentsMap, momentsNow, result, again, opc>>
chunkVars == <<entries, durationMinutes, chunks, cpc>>
silenceVars == <<totalDuration, silences, sounds, outcome, finalFilter, spc>>
parseVars == <<srtLines, eol, parsed, ppc>>
analysisVars == <<numChunks, ci, submitted, replies, allMoments, finalMoments, apc>>
pipelineVars ==
    <<front, viralMoments, existing, clipIndex, processedClips, rendered, failedClip,
      report, qpc>>
vars == <<overlapVars, chunkVars, silenceVars, parseVars, analysisVars, pipelineVars>>

----------------------------------------------------------------------------
(* Bounds *)

\* Candidate start and end times range over 0..MaxT quarter seconds.
MaxT == 5

\* Scores a proposal may carry, besides carrying none.
MaxScore == 1

\* The keys of the candidate map, in insertion order: at most three candidates.
KeyNames == <<"a", "b", "c">>

\* chunkSRTByDuration: at most MaxEntries entries, starting at multiples of 30 s
\* up to MaxHalfMinutes half minutes, and a window of 1..MaxMinutes minutes.
MaxEntries == 4
MaxHalfMinutes == 6
MaxMinutes == 2

\* removeSilence: at most MaxSilences silences, with bounds among 0..MaxTick
\* twentieths of a second, in a file of 1..MaxTotal twentieths.
MaxSilences == 3
MaxTick == 11
MaxTotal == 12

\* parseSRT: documents of at most MaxLines lines.
MaxLines == 7

\* analyzeTranscription: at most MaxChunks chunks.
MaxChunks == 3

----------------------------------------------------------------------------
(* removeOverlaps *)

\* The 0.5 s buffer of the overlap test, in quarter seconds.
OverlapBuffer == 2

Min(a, b) == IF a < b THEN a ELSE b
Max(a, b) == IF a > b THEN a ELSE b

\* A proposal value: start, end, titulo and, optionally, score.
Candidates ==
    LET timed == { [start |-> s, end |-> e, titulo |-> "t"] :
                      s \in 0..MaxT, e \in 0..MaxT }
        ranged == { c \in timed : c.start < c.end }
    IN  ranged \cup { c @@ [score |-> sc] : c \in ranged, sc \in 0..MaxScore }

\* Object.entries(momentsMap).map(([key, val]) => ({key, ...val, duration}))
\* Later properties of the literal win: f @@ g keeps f where both are defined.
ToClips(m) ==
    [ i \in 1..Len(m) |->
        [duration |-> m[i].val.end - m[i].val.start] @@ m[i].val @@ [key |-> m[i].key] ]

\* a.score || 0
ScoreOf(clip) == IF "score" \in DOMAIN clip THEN clip.score ELSE 0

\* A slip: ties on score broken by duration ascending.
CompareShortFirst(a, b) ==
    IF ScoreOf(b) # ScoreOf(a) THEN ScoreOf(b) - ScoreOf(a)
    ELSE a.duration - b.duration

\* The comparator of clips.sort: negative when a goes first.
Compare(a, b) ==
    IF ScoreOf(b) # ScoreOf(a) THEN ScoreOf(b) - ScoreOf(a)
    ELSE b.duration - a.duration

\* Array.prototype.sort is stable: x goes after every element it does not precede.
RECURSIVE InsertSorted(_, _)
InsertSorted(sorted, x) ==
    IF sorted = <<>> THEN <<x>>
    ELSE IF Compare(x, Head(sorted)) < 0 THEN <<x>> \o sorted
    ELSE <<Head(sorted)>> \o InsertSorted(Tail(sorted), x)

RECURSIVE SortClips(_)
SortClips(clips) ==
    IF clips = <<>> THEN <<>>
    ELSE InsertSorted(SortClips(SubSeq(clips, 1, Len(clips) - 1)), clips[Len(clips)])

\* A slip: the plain interval test of the comment, without the buffer.
OverlapsNoBuffer(clip, selected) ==
    /\ clip.start < selected.end
    /\ selected.start < clip.end

\* clip.start < selected.end - 0.5 && selected.start < clip.end - 0.5
Overlaps(clip, selected) ==
    /\ clip.start < selected.end - OverlapBuffer
    /\ selected.start < clip.end - OverlapBuffer

\* A slip: the clip is tested against the most recently selected clip only.
IsOverlapLastOnly(clip, selectedClips) ==
    /\ selectedClips # <<>>
    /\ Overlaps(clip, selectedClips[Len(selectedClips)])

\* The inner loop: isOverlap after testing clip against every selected clip.
IsOverlap(clip, selectedClips) ==
    \E j \in 1..Len(selectedClips) : Overlaps(clip, selectedClips[j])

\* The outer loop over the sorted clips, from the state reached so far.
RECURSIVE Select(_, _)
Select(clips, acc) ==
    IF clips = <<>> THEN acc
    ELSE LET clip == Head(clips)
         IN  IF ~IsOverlap(clip, acc.selectedClips)
             THEN Select(Tail(clips),
                         [acc EXCEPT !.selectedClips = Append(@, clip)])
             ELSE Select(Tail(clips),
                         [acc EXCEPT !.rejectedClips = Append(@, clip)])

\* delete clip.key; delete clip.duration
Cleaned(clip) == [ f \in DOMAIN clip \ {"key", "duration"} |-> clip[f] ]

\* result[k] = clip, for each selected clip in order (keys are distinct here).
ToResult(selectedClips) ==
    [ i \in 1..Len(selectedClips) |->
        [key |-> selectedClips[i].key, val |-> Cleaned(selectedClips[i])] ]

Greedy(m) ==
    Select(SortClips(ToClips(m)), [selectedClips |-> <<>>, rejectedClips |-> <<>>])

\* A slip: the map is built from the rejected clips.
removeOverlapsRejected(m) == ToResult(Greedy(m).rejectedClips)

removeOverlaps(m) == ToResult(Greedy(m).selectedClips)

\* A slip: the clip is the value itself, extended in place with key and duration.
ClipObjectIsValue(i) == <<"val", i>>

\* The object the map callback returns for the i-th entry: an object literal,
\* which is a new object, not the value it was spread from.
ClipObject(i) == <<"clip", i>>

\* The objects after the call.  The values of m are there from the start; the
\* map callback writes the clips; delete clip.key and delete clip.duration
\* write to the selected clips.  Nothing else is written to.
ObjectsAfter(m) ==
    LET vals == { <<"val", i>> : i \in DOMAIN m }
        clips == { ClipObject(i) : i \in DOMAIN m }
        IndexOf(o) == CHOOSE i \in DOMAIN m : ClipObject(i) = o
        mapped == ToClips(m)
        made == [ o \in vals \cup clips |->
                    IF o \in clips THEN mapped[IndexOf(o)] ELSE m[o[2]].val ]
        selectedClips == Greedy(m).selectedClips
        selectedKeys == { selectedClips[j].key : j \in DOMAIN selectedClips }
    IN  [ o \in DOMAIN made |->
            IF o \in clips /\ m[IndexOf(o)].key \in selectedKeys
            THEN Cleaned(made[o])
            ELSE made[o] ]

\* The caller's map after the call: no key is added or removed, each value is
\* the object it was.
MomentsAfter(m) ==
    LET after == ObjectsAfter(m)
    IN  [ i \in DOMAIN m |-> [key |-> m[i].key, val |-> after[<<"val", i>>]] ]

----------------------------------------------------------------------------
(* The operations *)

OverlapIdle ==
    /\ momentsMap = <<>>
    /\ momentsNow = <<>>
    /\ result = <<>>
    /\ again = <<>>
    /\ opc = "idle"

ChunkIdle ==
    /\ entries = <<>>
    /\ durationMinutes = 0
    /\ chunks = <<>>
    /\ cpc = "idle"

SilenceIdle ==
    /\ totalDuration = 0
    /\ silences = <<>>
    /\ sounds = <<>>
    /\ outcome = "none"
    /\ finalFilter = <<>>
    /\ spc = "idle"

ParseIdle ==
    /\ srtLines = <<>>
    /\ eol = <<>>
    /\ parsed = <<>>
    /\ ppc = "idle"

AnalysisIdle ==
    /\ numChunks = 0
    /\ ci = 0
    /\ submitted = <<>>
    /\ replies = <<>>
    /\ allMoments = <<>>
    /\ finalMoments = <<>>
    /\ apc = "idle"

PipelineIdle ==
    /\ front = "none"
    /\ viralMoments = <<>>
    /\ existing = {}
    /\ clipIndex = 0
    /\ processedClips = <<>>
    /\ rendered = {}
    /\ failedClip = ""
    /\ report = [saved |-> <<>>]
    /\ qpc = "idle"

OverlapInit ==
    /\ ChunkIdle
    /\ SilenceIdle
    /\ ParseIdle
    /\ AnalysisIdle
    /\ PipelineIdle
    /\ \E n \in 0..Len(KeyNames) :
         \E f \in [1..n -> Candidates] :
            momentsMap = [ i \in 1..n |-> [key |-> KeyNames[i], val |-> f[i]] ]
    /\ momentsNow = momentsMap
    /\ result = <<>>
    /\ again = <<>>
    /\ opc = "input"

ResolveOverlaps ==
    /\ opc = "input"
    /\ result' = removeOverlaps(momentsMap)
    /\ momentsNow' = MomentsAfter(momentsMap)
    /\ opc' = "resolved"
    /\ UNCHANGED <<momentsMap, again, chunkVars, silenceVars, parseVars, analysisVars, pipelineVars>>

ResolveAgain ==
    /\ opc = "resolved"
    /\ again' = removeOverlaps(result)
    /\ opc' = "again"
    /\ UNCHANGED <<momentsMap, momentsNow, result, chunkVars, silenceVars, parseVars, analysisVars, pipelineVars>>

OverlapNext == ResolveOverlaps \/ ResolveAgain

OverlapSpec == OverlapInit /\ [][OverlapNext]_vars

----------------------------------------------------------------------------
(* Properties of removeOverlaps *)

\* The overlap predicate as the specification states it, on candidate values.
Conflict(A, B) ==
    /\ A.start < B.end - 2
    /\ B.start < A.end - 2

\* The time two ranges share: min of the ends minus max of the starts.
TrueOverlap(A, B) == Min(A.end, B.end) - Max(A.start, B.start)

Resolved == opc # "input"

KeysOf(m) == { m[i].key : i \in 1..Len(m) }

\* A map as a set of key/value pairs: insertion order forgotten.
AsMap(m) == { <<m[i].key, m[i].val>> : i \in 1..Len(m) }

Kept == { i \in 1..Len(momentsMap) : momentsMap[i].key \in KeysOf(result) }
Dropped == { i \in 1..Len(momentsMap) : momentsMap[i].key \notin KeysOf(result) }

Score(v) == IF "score" \in DOMAIN v THEN v.score ELSE 0
Duration(v) == v.end - v.start

\* k is not lower in priority than d: score descending, then duration descending.
NotLower(k, d) ==
    \/ Score(k) > Score(d)
    \/ Score(k) = Score(d) /\ Duration(k) >= Duration(d)

\* C1: the map removeOverlaps returns is pairwise non-overlapping: no two
\* distinct returned candidates A, B have A.start < B.end - 0.5 and
\* B.start < A.end - 0.5.
C1_PairwiseNonOverlapping ==
    Resolved =>
        \A i, j \in 1..Len(result) :
            i # j => ~Conflict(result[i].val, result[j].val)

\* C1 witness: three candidates resolved, two kept and one dropped.
C1_Witness ==
    /\ Resolved
    /\ Len(momentsMap) = 3
    /\ Len(result) = 2
    /\ \E i \in Dropped : \E j \in Kept :
          Conflict(momentsMap[i].val, momentsMap[j].val)

\* The map {a: {0, 50, score 90}, b: {40, 90, score 80}, c: {100, 150, score 70}},
\* in quarter seconds.
ExampleMap ==
    << [key |-> "a", val |-> [start |-> 0, end |-> 200, titulo |-> "t", score |-> 90]],
       [key |-> "b", val |-> [start |-> 160, end |-> 360, titulo |-> "t", score |-> 80]],
       [key |-> "c", val |-> [start |-> 400, end |-> 600, titulo |-> "t", score |-> 70]] >>

\* C2: every dropped candidate overlaps some kept candidate that is not lower
\* in priority (score descending, missing score as 0, then duration
\* descending); so the output is maximal, and of two conflicting candidates
\* with equal score and different duration the longer one is kept.  The
\* example map keeps a and c and drops b.
C2_DroppedLoseToKept ==
    /\ KeysOf(removeOverlaps(ExampleMap)) = {"a", "c"}
    /\ Resolved =>
        /\ \A d \in Dropped : \E k \in Kept :
              /\ Conflict(momentsMap[d].val, momentsMap[k].val)
              /\ NotLower(momentsMap[k].val, momentsMap[d].val)
        /\ Len(momentsMap) = 2 =>
              LET A == momentsMap[1].val
                  B == momentsMap[2].val
              IN  (/\ Conflict(A, B)
                   /\ Score(A) = Score(B)
                   /\ Duration(A) # Duration(B))
                  => KeysOf(result) =
                        { IF Duration(A) > Duration(B)
                          THEN momentsMap[1].key ELSE momentsMap[2].key }

\* C2 witness: two conflicting candidates with equal score (one of them
\* carrying no score) and different durations; the first, shorter one is dropped.
C2_Witness ==
    /\ Resolved
    /\ Len(momentsMap) = 2
    /\ Conflict(momentsMap[1].val, momentsMap[2].val)
    /\ "score" \notin DOMAIN momentsMap[1].val
    /\ "score" \in DOMAIN momentsMap[2].val
    /\ Score(momentsMap[2].val) = 0
    /\ Duration(momentsMap[1].val) < Duration(momentsMap[2].val)
    /\ KeysOf(result) = {momentsMap[2].key}

\* C3: removeOverlaps is idempotent: applied to its own result it returns a
\* map with exactly the same keys and the same candidate values.
C3_Idempotent ==
    opc = "again" => AsMap(again) = AsMap(result)

\* C3 witness: a second application after a first one that dropped a candidate
\* and kept two.
C3_Witness ==
    /\ opc = "again"
    /\ Len(momentsMap) = 3
    /\ Len(result) = 2
    /\ Len(again) = 2

\* The two candidates of a two-candidate map.
PairA == momentsMap[1].val
PairB == momentsMap[2].val

BothKept == KeysOf(result) = KeysOf(momentsMap)

\* C4 as stated: two candidates whose ranges touch or share less than 0.5 s
\* are both kept, whatever their scores and durations.
C4_Original ==
    (/\ Resolved
     /\ Len(momentsMap) = 2
     /\ TrueOverlap(PairA, PairB) < 2)
    => BothKept

\* C4 amended: two candidates whose ranges touch or share less than 0.5 s are
\* both kept provided each of them is at least 0.5 s long.
C4_ToleranceKeepsBoth ==
    (/\ Resolved
     /\ Len(momentsMap) = 2
     /\ TrueOverlap(PairA, PairB) < 2
     /\ Duration(PairA) >= 2
     /\ Duration(PairB) >= 2)
    => BothKept

\* C4 witness: two candidates of different scores sharing a quarter second,
\* each at least 0.5 s long, both kept.
C4_Witness ==
    /\ Resolved
    /\ Len(momentsMap) = 2
    /\ TrueOverlap(PairA, PairB) = 1
    /\ Duration(PairA) >= 2
    /\ Duration(PairB) >= 2
    /\ Score(PairA) # Score(PairB)
    /\ BothKept

\* C14: removeOverlaps returns a subset of its input and changes nothing else:
\* every key of the result is a key of the input, the value under it has the
\* start, end, title and score of the input candidate under that key and no
\* auxiliary key or duration field, and the input map and its candidates are
\* after the call what they were before it.
C14_SubsetAndInputUntouched ==
    Resolved =>
        /\ \A r \in DOMAIN result :
             /\ \E i \in DOMAIN momentsMap :
                  /\ momentsMap[i].key = result[r].key
                  /\ DOMAIN result[r].val = DOMAIN momentsMap[i].val
                  /\ \A f \in DOMAIN momentsMap[i].val :
                       result[r].val[f] = momentsMap[i].val[f]
             /\ DOMAIN result[r].val \cap {"key", "duration"} = {}
        /\ \A r, q \in DOMAIN result : r # q => result[r].key # result[q].key
        /\ Len(momentsNow) = Len(momentsMap)
        /\ \A i \in DOMAIN momentsMap :
             /\ momentsNow[i].key = momentsMap[i].key
             /\ DOMAIN momentsNow[i].val = DOMAIN momentsMap[i].val
             /\ \A f \in DOMAIN momentsMap[i].val :
                  momentsNow[i].val[f] = momentsMap[i].val[f]

\* Three candidates, one with a score and one without; one of them is dropped.
C14_Witness ==
    /\ opc = "resolved"
    /\ Len(momentsMap) = 3
    /\ Len(result) = 2
    /\ \E i, j \in DOMAIN momentsMap :
         /\ "score" \in DOMAIN momentsMap[i].val
         /\ "score" \notin DOMAIN momentsMap[j].val
         /\ {momentsMap[i].key, momentsMap[j].key} \subseteq KeysOf(result)

----------------------------------------------------------------------------
(* chunkSRTByDuration *)

\* The start times an entry may carry, in seconds (parseSRT gives none below 0).
StartTimes == { 30 * k : k \in 0..MaxHalfMinutes }

\* A slip: an entry exactly the window after the chunk's start opens a new chunk.
ExceedsOrReaches(entry, chunkStartTime, durationSeconds) ==
    entry.startSeconds - chunkStartTime >= durationSeconds

\* entry.startSeconds - chunkStartTime > durationSeconds
Exceeds(entry, chunkStartTime, durationSeconds) ==
    entry.startSeconds - chunkStartTime > durationSeconds

\* The body of entries.forEach, on the loop's variables.
ChunkStep(acc, entry, durationSeconds) ==
    LET started == IF acc.chunkStartTime = -1 THEN entry.startSeconds
                   ELSE acc.chunkStartTime
    IN  IF Exceeds(entry, started, durationSeconds) /\ Len(acc.currentChunk) > 0
        THEN [chunks |-> Append(acc.chunks, acc.currentChunk),
              currentChunk |-> <<entry>>,
              chunkStartTime |-> entry.startSeconds]
        ELSE [chunks |-> acc.chunks,
              currentChunk |-> Append(acc.currentChunk, entry),
              chunkStartTime |-> started]

RECURSIVE ChunkLoop(_, _, _)
ChunkLoop(es, acc, durationSeconds) ==
    IF es = <<>> THEN acc
    ELSE ChunkLoop(Tail(es), ChunkStep(acc, Head(es), durationSeconds), durationSeconds)

\* A slip: the chunk still open at the end of the input is not pushed.
FlushNothing(acc) == acc.chunks

\* if (currentChunk.length > 0) chunks.push(currentChunk)
Flush(acc) ==
    IF Len(acc.currentChunk) > 0 THEN Append(acc.chunks, acc.currentChunk)
    ELSE acc.chunks

chunkSRTByDuration(es, minutes) ==
    LET durationSeconds == minutes * 60
    IN  Flush(ChunkLoop(es,
                        [chunks |-> <<>>, currentChunk |-> <<>>, chunkStartTime |-> -1],
                        durationSeconds))

ChunkInit ==
    /\ OverlapIdle
    /\ SilenceIdle
    /\ ParseIdle
    /\ AnalysisIdle
    /\ PipelineIdle
    /\ \E n \in 0..MaxEntries :
         \E f \in [1..n -> StartTimes] :
            entries = [ i \in 1..n |-> [id |-> i, startSeconds |-> f[i]] ]
    /\ durationMinutes \in 1..MaxMinutes
    /\ chunks = <<>>
    /\ cpc = "input"

ChunkEntries ==
    /\ cpc = "input"
    /\ chunks' = chunkSRTByDuration(entries, durationMinutes)
    /\ cpc' = "chunked"
    /\ UNCHANGED <<entries, durationMinutes, overlapVars, silenceVars, parseVars, analysisVars, pipelineVars>>

ChunkNext == ChunkEntries

ChunkSpec == ChunkInit /\ [][ChunkNext]_vars

----------------------------------------------------------------------------
(* Properties of chunkSRTByDuration *)

Chunked == cpc = "chunked"

\* The window in seconds.
Window == durationMinutes * 60

SortedByStart ==
    \A i, j \in 1..Len(entries) :
        i < j => entries[i].startSeconds <= entries[j].startSeconds

RECURSIVE Flatten(_)
Flatten(cs) == IF cs = <<>> THEN <<>> ELSE Head(cs) \o Flatten(Tail(cs))

\* C5: on entries with non-decreasing startSeconds, every chunk has exactly one
\* entry or spans at most the window, and a chunk ends only before an entry
\* that starts more than the window after the chunk's first entry: an entry
\* exactly the window after it stays in the chunk.
C5_ChunkSpanWithinWindow ==
    (Chunked /\ SortedByStart) =>
        /\ \A c \in 1..Len(chunks) :
              \/ Len(chunks[c]) = 1
              \/ chunks[c][Len(chunks[c])].startSeconds - chunks[c][1].startSeconds
                    <= Window
        /\ \A c \in 1..(Len(chunks) - 1) :
              chunks[c + 1][1].startSeconds - chunks[c][1].startSeconds > Window

\* C5 witness: sorted entries cut into two chunks, the first holding an entry
\* exactly the window after its first entry.
C5_Witness ==
    /\ Chunked
    /\ SortedByStart
    /\ Len(chunks) = 2
    /\ Len(chunks[1]) >= 2
    /\ chunks[1][Len(chunks[1])].startSeconds - chunks[1][1].startSeconds = Window

\* C6: for every entry sequence, sorted or not, the chunks partition the
\* input: every chunk is non-empty and the chunks concatenated in order are
\* the input sequence; an empty input gives no chunks.
C6_ChunksPartitionInput ==
    Chunked =>
        /\ \A c \in 1..Len(chunks) : Len(chunks[c]) > 0
        /\ Flatten(chunks) = entries
        /\ entries = <<>> => chunks = <<>>

\* C6 witness: entries out of time order, cut into at least two chunks.
C6_Witness ==
    /\ Chunked
    /\ ~SortedByStart
    /\ Len(chunks) >= 2
    /\ \E c \in 1..Len(chunks) : Len(chunks[c]) >= 2

----------------------------------------------------------------------------
(* removeSilence: from the silences to the sound segments *)

\* const PADDING = 0.1, in twentieths of a second.
PADDING == 2

\* The 0.1 s a gap must exceed for a sound segment, in twentieths of a second.
MergeGap == 2

\* A slip: a gap of exactly the threshold gives a segment.
GapReaches(s, lastEnd) == s.start - lastEnd >= MergeGap

\* s.start - lastEnd > 0.1
GapExceeds(s, lastEnd) == s.start - lastEnd > MergeGap

\* A slip: lastEnd is moved to the start of the silence.
SoundStepToStart(acc, s, total) ==
    [sounds |->
        IF GapExceeds(s, acc.lastEnd)
        THEN Append(acc.sounds, [start |-> Max(0, acc.lastEnd - PADDING),
                                 end |-> Min(total, s.start + PADDING)])
        ELSE acc.sounds,
     lastEnd |-> s.start]

\* The body of silences.forEach, on sounds and lastEnd.
SoundStep(acc, s, total) ==
    [sounds |->
        IF GapExceeds(s, acc.lastEnd)
        THEN Append(acc.sounds, [start |-> Max(0, acc.lastEnd - PADDING),
                                 end |-> Min(total, s.start + PADDING)])
        ELSE acc.sounds,
     lastEnd |-> s.end]

RECURSIVE SoundLoop(_, _, _)
SoundLoop(ss, acc, total) ==
    IF ss = <<>> THEN acc
    ELSE SoundLoop(Tail(ss), SoundStep(acc, Head(ss), total), total)

\* if (lastEnd < totalDuration) sounds.push({start: lastEnd - PADDING, end: totalDuration})
WithTrailing(acc, total) ==
    IF acc.lastEnd < total
    THEN Append(acc.sounds, [start |-> acc.lastEnd - PADDING, end |-> total])
    ELSE acc.sounds

\* Lines 145-161: the sounds array when the filter generation starts.
SoundSegments(ss, total) ==
    WithTrailing(SoundLoop(ss, [sounds |-> <<>>, lastEnd |-> 0], total), total)

\* A slip: the early return on an empty detection is missing.
NoSilenceIgnored(ss) == FALSE

\* silences.length === 0
NoSilence(ss) == Len(ss) = 0

\* A slip: the return on an empty sounds array is missing.
NoSoundIgnored(computed) == FALSE

\* sounds.length === 0
NoSound(computed) == Len(computed) = 0

\* t.toFixed(4): a time in twentieths of a second, in ten-thousandths.
ToFixed4(t) == t * 500

\* `[0:v]trim=start=..:end=..,setpts=PTS-STARTPTS[v${i}];`
VideoTrim(seg, i) ==
    [in |-> "0:v", filter |-> "trim", start |-> ToFixed4(seg.start),
     end |-> ToFixed4(seg.end), out |-> "v" \o ToString(i)]

\* `[0:a]atrim=start=..:end=..,asetpts=PTS-STARTPTS[a${i}];`
AudioTrim(seg, i) ==
    [in |-> "0:a", filter |-> "atrim", start |-> ToFixed4(seg.start),
     end |-> ToFixed4(seg.end), out |-> "a" \o ToString(i)]

\* `[v${i}][a${i}]`
ConcatPart(i) == <<"v" \o ToString(i), "a" \o ToString(i)>>

\* finalFilter: the video trims, the audio trims, then the concat of the parts;
\* forEach counts i from 0.
FilterOf(computed) ==
    [videoFilter |-> [ j \in DOMAIN computed |-> VideoTrim(computed[j], j - 1) ],
     audioFilter |-> [ j \in DOMAIN computed |-> AudioTrim(computed[j], j - 1) ],
     concatParts |-> [ j \in DOMAIN computed |-> ConcatPart(j - 1) ],
     n |-> Len(computed)]

\* What removeSilence computed and did: the copy of the input on no silence or
\* no sound, the trim-and-concatenate render otherwise.
SilenceOutcome(ss, total) ==
    IF NoSilence(ss) THEN [sounds |-> <<>>, outcome |-> "copied", filter |-> <<>>]
    ELSE LET computed == SoundSegments(ss, total)
         IN  IF NoSound(computed)
             THEN [sounds |-> computed, outcome |-> "copied", filter |-> <<>>]
             ELSE [sounds |-> computed, outcome |-> "render",
                   filter |-> <<FilterOf(computed)>>]

\* The end of the last silence pushed so far (0 before the first).
LastDetectedEnd == IF silences = <<>> THEN 0 ELSE silences[Len(silences)].end

SilenceInit ==
    /\ OverlapIdle
    /\ ChunkIdle
    /\ ParseIdle
    /\ AnalysisIdle
    /\ PipelineIdle
    /\ totalDuration \in 1..MaxTotal
    /\ silences = <<>>
    /\ sounds = <<>>
    /\ outcome = "none"
    /\ finalFilter = <<>>
    /\ spc = "detecting"

\* getSilenceSegments pushes one more {start, end}: the detector reports the
\* silences in time order, none overlapping the one before, each with start < end.
DetectSilence ==
    /\ spc = "detecting"
    /\ Len(silences) < MaxSilences
    /\ \E st \in LastDetectedEnd..MaxTick : \E en \in (st + 1)..MaxTick :
          silences' = Append(silences, [start |-> st, end |-> en])
    /\ UNCHANGED <<totalDuration, sounds, outcome, finalFilter, spc, overlapVars, chunkVars, parseVars, analysisVars, pipelineVars>>

\* The rest of removeSilence, up to the copy or the start of the render.
InvertSilences ==
    /\ spc = "detecting"
    /\ sounds' = SilenceOutcome(silences, totalDuration).sounds
    /\ outcome' = SilenceOutcome(silences, totalDuration).outcome
    /\ finalFilter' = SilenceOutcome(silences, totalDuration).filter
    /\ spc' = "done"
    /\ UNCHANGED <<totalDuration, silences, overlapVars, chunkVars, parseVars, analysisVars, pipelineVars>>

SilenceNext == DetectSilence \/ InvertSilences

SilenceSpec == SilenceInit /\ [][SilenceNext]_vars

----------------------------------------------------------------------------
(* Properties of removeSilence *)

Inverted == spc = "done"

\* C7 as stated: with no silence, the computation gives the single segment
\* {0, totalDuration}.
C7_Original ==
    (Inverted /\ silences = <<>>) =>
        sounds = <<[start |-> 0, end |-> totalDuration]>>

\* C7 amended: with no silence, removeSilence computes no sound segment at
\* all and copies the input to the output: the whole duration is kept and no
\* render is started.
C7_NoSilenceCopies ==
    (Inverted /\ silences = <<>>) =>
        /\ outcome = "copied"
        /\ sounds = <<>>

\* C7 witness: removeSilence has run on an empty detection.
C7_Witness ==
    /\ Inverted
    /\ silences = <<>>
    /\ outcome = "copied"
    /\ totalDuration > 1

Pad == 2

\* C9: the sound segments are in chronological order (starts and ends
\* non-decreasing), two consecutive segments overlap by less than twice the
\* padding, and they are pairwise disjoint when every silence is at least
\* twice the padding long.
C9_SegmentsChronological ==
    Inverted =>
        /\ \A i \in 1..(Len(sounds) - 1) :
              /\ sounds[i].start <= sounds[i + 1].start
              /\ sounds[i].end <= sounds[i + 1].end
              /\ sounds[i].end - sounds[i + 1].start < 2 * Pad
        /\ (\A k \in 1..Len(silences) : silences[k].end - silences[k].start >= 2 * Pad)
              => \A i, j \in 1..Len(sounds) :
                    i < j => sounds[i].end <= sounds[j].start

\* C9 witness: three segments, two of them sharing time around a silence
\* shorter than twice the padding.
C9_Witness ==
    /\ Inverted
    /\ Len(sounds) = 3
    /\ sounds[1].end - sounds[2].start > 0
    /\ sounds[2].end <= sounds[3].start

\* The end of the silence before silence i (0 before the first).
EndBefore(i) == IF i = 1 THEN 0 ELSE silences[i - 1].end

\* The silences a segment is emitted before.
Emits(i) == silences[i].start - EndBefore(i) > 2

\* The segments the stated rule gives for the current silences.
StatedSegments ==
    LET n == Len(silences)
        before == SelectSeq([i \in 1..n |-> i], Emits)
        lead == [ k \in 1..Len(before) |->
                    [start |-> Max(0, EndBefore(before[k]) - Pad),
                     end |-> Min(totalDuration, silences[before[k]].start + Pad)] ]
        trail == IF silences[n].end < totalDuration
                 THEN <<[start |-> silences[n].end - Pad, end |-> totalDuration]>>
                 ELSE <<>>
    IN  lead \o trail

\* C10: for a non-empty silence list, a segment {max(0, lastEnd - 0.1),
\* min(totalDuration, silence.start + 0.1)} is emitted before a silence exactly
\* when silence.start - lastEnd > 0.1, lastEnd being 0 at first and the end of
\* the silence before afterwards, followed by {lastEnd - 0.1, totalDuration}
\* exactly when lastEnd < totalDuration; silences [{5,6},{10,12}] in 20 s give
\* [{0,5.1},{5.9,10.1},{11.9,20}].
C10_SegmentsAsStated ==
    /\ (Inverted /\ silences # <<>>) => sounds = StatedSegments
    /\ SoundSegments(<<[start |-> 100, end |-> 120], [start |-> 200, end |-> 240]>>, 400)
          = << [start |-> 0, end |-> 102],
               [start |-> 118, end |-> 202],
               [start |-> 238, end |-> 400] >>

\* C10 witness: a silence right after another gives no segment, a later one
\* does, and a trailing segment follows.
C10_Witness ==
    /\ Inverted
    /\ Len(silences) = 3
    /\ ~Emits(2)
    /\ Emits(3)
    /\ Len(sounds) = 3
    /\ sounds[3].end = totalDuration

\* C15: removeSilence never starts the render with an empty segment list: on
\* an empty list of sound segments, or of silences, it copies the input and
\* writes no filter; a render has one video trim and one audio trim per
\* segment, with the segment's times, paired by the same index in the concat,
\* in the order of the segments, and concat n is the number of segments.
C15_RenderHasSegments ==
    spc = "done" =>
        /\ outcome \in {"copied", "render"}
        /\ silences = <<>> \/ sounds = <<>> => outcome = "copied" /\ finalFilter = <<>>
        /\ outcome = "render" =>
             /\ Len(sounds) > 0
             /\ Len(finalFilter) = 1
             /\ LET f == finalFilter[1]
                IN  /\ f.n = Len(sounds)
                    /\ Len(f.videoFilter) = Len(sounds)
                    /\ Len(f.audioFilter) = Len(sounds)
                    /\ Len(f.concatParts) = Len(sounds)
                    /\ \A j \in DOMAIN sounds :
                         /\ f.videoFilter[j].start = 500 * sounds[j].start
                         /\ f.videoFilter[j].end = 500 * sounds[j].end
                         /\ f.audioFilter[j].start = f.videoFilter[j].start
                         /\ f.audioFilter[j].end = f.videoFilter[j].end
                         /\ f.videoFilter[j].in = "0:v" /\ f.audioFilter[j].in = "0:a"
                         /\ f.concatParts[j] =
                              <<f.videoFilter[j].out, f.audioFilter[j].out>>
                    /\ \A j, k \in DOMAIN sounds :
                         j # k => /\ f.videoFilter[j].out # f.videoFilter[k].out
                                  /\ f.audioFilter[j].out # f.audioFilter[k].out

\* Silence was detected over the whole file: no sound segment, the input is copied.
C15_Witness ==
    /\ spc = "done"
    /\ silences # <<>>
    /\ sounds = <<>>
    /\ outcome = "copied"
    /\ finalFilter = <<>>

----------------------------------------------------------------------------
(* parseSRT *)

(* A document is a sequence of tokens: the line feed, the carriage return, the *)
(* space, and one token for the whole content of a line that is a time-range   *)
(* line or any other non-blank line (an id or a text line).                    *)
LF == "LF"
CR == "CR"
SP == " "
TextLine == "text"
TimeLine == "00:01:05,250 --> 00:01:09,000"

\* What a line of a document may be: empty, one space, a text or id line, a time line.
LineKinds == { <<>>, <<SP>>, <<TextLine>>, <<TimeLine>> }

\* The line endings a document is written with: "\n" or "\r\n".
LineEndings == { <<LF>>, <<CR, LF>> }

\* The document: the lines joined by the line ending.
RECURSIVE JoinLines(_, _)
JoinLines(lines, sep) ==
    IF lines = <<>> THEN <<>>
    ELSE IF Len(lines) = 1 THEN lines[1]
    ELSE lines[1] \o sep \o JoinLines(Tail(lines), sep)

\* A slip: the line endings are left as they are.
NormalizeNothing(doc) == doc

\* srtContent.replace(/\r\n/g, '\n')
RECURSIVE NormalizeEndings(_)
NormalizeEndings(doc) ==
    IF doc = <<>> THEN <<>>
    ELSE IF Len(doc) >= 2 /\ doc[1] = CR /\ doc[2] = LF
         THEN <<LF>> \o NormalizeEndings(SubSeq(doc, 3, Len(doc)))
    ELSE <<doc[1]>> \o NormalizeEndings(Tail(doc))

\* .split('\n\n'): the pieces between the occurrences of two line feeds, found
\* left to right; block is the piece being read.
RECURSIVE SplitBlocks(_, _)
SplitBlocks(doc, block) ==
    IF doc = <<>> THEN <<block>>
    ELSE IF Len(doc) >= 2 /\ doc[1] = LF /\ doc[2] = LF
         THEN <<block>> \o SplitBlocks(SubSeq(doc, 3, Len(doc)), <<>>)
    ELSE SplitBlocks(Tail(doc), Append(block, doc[1]))

\* block.split('\n')
RECURSIVE SplitLines(_, _)
SplitLines(block, line) ==
    IF block = <<>> THEN <<line>>
    ELSE IF block[1] = LF THEN <<line>> \o SplitLines(Tail(block), <<>>)
    ELSE SplitLines(Tail(block), Append(line, block[1]))

IsSpace(token) == token \in {SP, CR, LF}

\* l.trim()
RECURSIVE Trim(_)
Trim(line) ==
    IF line = <<>> THEN <<>>
    ELSE IF IsSpace(line[1]) THEN Trim(Tail(line))
    ELSE IF IsSpace(line[Len(line)]) THEN Trim(SubSeq(line, 1, Len(line) - 1))
    ELSE line

NotBlank(line) == Trim(line) # <<>>

\* timeLine.match(/(\d{2}:\d{2}:\d{2},\d{3}) -->/): the hours, minutes, seconds
\* and milliseconds of the first timestamp followed by an arrow, or none.
TimeMatch(timeLine) ==
    IF \E k \in 1..Len(timeLine) : timeLine[k] = TimeLine THEN <<0, 1, 5, 250>>
    ELSE <<>>

\* parseTimestamp, in milliseconds: h * 3600 + m * 60 + sec + ms / 1000.
parseTimestamp(stamp) ==
    IF stamp = <<>> THEN 0
    ELSE stamp[1] * 3600000 + stamp[2] * 60000 + stamp[3] * 1000 + stamp[4]

\* lines.slice(2).join(' ')
JoinText(lines) == JoinLines(SubSeq(lines, 3, Len(lines)), <<SP>>)

\* lines.length >= 3
EnoughLines(lines) == Len(lines) >= 3

\* The entries one block gives: one, or none.
BlockEntries(block) ==
    LET lines == SelectSeq(SplitLines(block, <<>>), NotBlank)
    IN  IF EnoughLines(lines)
        THEN << [id |-> lines[1],
                 timeLine |-> lines[2],
                 startSeconds |-> IF TimeMatch(lines[2]) # <<>>
                                  THEN parseTimestamp(TimeMatch(lines[2]))
                                  ELSE 0,
                 text |-> JoinText(lines),
                 fullBlock |-> block] >>
        ELSE <<>>

RECURSIVE EntriesOfBlocks(_)
EntriesOfBlocks(blocks) ==
    IF blocks = <<>> THEN <<>>
    ELSE BlockEntries(Head(blocks)) \o EntriesOfBlocks(Tail(blocks))

parseSRT(srtContent) ==
    EntriesOfBlocks(SplitBlocks(NormalizeEndings(srtContent), <<>>))

ParseInit ==
    /\ OverlapIdle
    /\ ChunkIdle
    /\ SilenceIdle
    /\ AnalysisIdle
    /\ PipelineIdle
    /\ \E n \in 0..MaxLines : srtLines \in [1..n -> LineKinds]
    /\ eol \in LineEndings
    /\ parsed = <<>>
    /\ ppc = "input"

ParseDocument ==
    /\ ppc = "input"
    /\ parsed' = parseSRT(JoinLines(srtLines, eol))
    /\ ppc' = "parsed"
    /\ UNCHANGED <<srtLines, eol, overlapVars, chunkVars, silenceVars,
                   analysisVars, pipelineVars>>

ParseNext == ParseDocument

ParseSpec == ParseInit /\ [][ParseNext]_vars

----------------------------------------------------------------------------
(* Properties of parseSRT *)

Parsed == ppc = "parsed"

\* A line of the document with no character at all: the separator of blocks.
EmptyLine(i) == srtLines[i] = <<>>

\* The lines a subtitle block starts at, and the line the block at i ends at.
BlockStarts ==
    { i \in 1..Len(srtLines) : ~EmptyLine(i) /\ (i = 1 \/ EmptyLine(i - 1)) }
BlockEnd(i) ==
    CHOOSE j \in i..Len(srtLines) :
        /\ \A k \in i..j : ~EmptyLine(k)
        /\ j = Len(srtLines) \/ EmptyLine(j + 1)

\* The k-th block start, counted from 1.
NthStart(k) ==
    CHOOSE i \in BlockStarts : Cardinality({ b \in BlockStarts : b <= i }) = k

\* The lines of the block at i that hold more than white space.
SolidLines(i) == { k \in i..BlockEnd(i) : srtLines[k] # <<SP>> }

\* Every block is an id line, a time-range line and one or more text lines.
ValidBlocks ==
    \A i \in BlockStarts :
        /\ BlockEnd(i) >= i + 2
        /\ srtLines[i] = <<TextLine>>
        /\ srtLines[i + 1] = <<TimeLine>>
        /\ \A k \in (i + 2)..BlockEnd(i) : srtLines[k] = <<TextLine>>

----------------------------------------------------------------------------
(* analyzeTranscription *)

\* The keys the collaborator names its proposals with, as in the prompt's example.
ProposalKeys == {"c1", "c2"}

\* The values it proposes: two candidates that overlap each other.
ProposalValues ==
    { [start |-> 0, end |-> 4, titulo |-> "t", score |-> 1],
      [start |-> 1, end |-> 5, titulo |-> "t"] }

\* The objects a response body may hold: entries with distinct keys, in any order.
ProposalObjects ==
    { m \in UNION { [1..n -> [key : ProposalKeys, val : ProposalValues]] : n \in 0..2 } :
        \A i, j \in DOMAIN m : i # j => m[i].key # m[j].key }

\* What a call of the collaborator comes to: the call rejects ("error"), or it
\* answers with a body that is not JSON ("text"), that is the JSON null
\* ("null"), or that is a JSON object of proposals ("object").
Replies ==
    { [kind |-> k, moments |-> <<>>] : k \in {"error", "text", "null"} }
        \cup { [kind |-> "object", moments |-> m] : m \in ProposalObjects }

\* JSON.parse(content): throws on a body that is not JSON; null is JSON.
JsonParse(reply) ==
    [threw |-> reply.kind = "text",
     null |-> reply.kind = "null",
     entries |-> reply.moments]

\* A slip: analyzeChunk without its catch, the failure reaches the caller.
analyzeChunkUncaught(reply) ==
    IF reply.kind = "error"
    THEN [threw |-> TRUE, null |-> FALSE, entries |-> <<>>]
    ELSE JsonParse(reply)

\* analyzeChunk: the try block awaits the completion and parses its content;
\* the catch logs and returns {}.
analyzeChunk(reply) ==
    LET attempt == IF reply.kind = "error"
                   THEN [threw |-> TRUE, null |-> FALSE, entries |-> <<>>]
                   ELSE JsonParse(reply)
    IN  IF attempt.threw
        THEN [threw |-> FALSE, null |-> FALSE, entries |-> <<>>]
        ELSE attempt

\* A slip: the key of the proposal alone.
MomentKeyUnindexed(i, key) == "chunk_" \o key

\* `chunk${i}_${key}`
MomentKey(i, key) == "chunk" \o ToString(i) \o "_" \o key

\* map[key] = val: an own property that exists keeps its place, a new one goes last.
PutMoment(map, key, val) ==
    IF \E j \in DOMAIN map : map[j].key = key
    THEN [ j \in DOMAIN map |->
             IF map[j].key = key THEN [key |-> key, val |-> val] ELSE map[j] ]
    ELSE Append(map, [key |-> key, val |-> val])

\* for (const [key, val] of Object.entries(chunkMoments)) allMoments[...] = val
RECURSIVE MergeMoments(_, _, _)
MergeMoments(map, i, chunkEntries) ==
    IF chunkEntries = <<>> THEN map
    ELSE MergeMoments(PutMoment(map, MomentKey(i, Head(chunkEntries).key),
                                Head(chunkEntries).val),
                      i, Tail(chunkEntries))

AnalysisInit ==
    /\ OverlapIdle /\ ChunkIdle /\ SilenceIdle /\ ParseIdle /\ PipelineIdle
    /\ numChunks \in 0..MaxChunks
    /\ ci = 0
    /\ submitted = <<>>
    /\ replies = <<>>
    /\ allMoments = <<>>
    /\ finalMoments = <<>>
    /\ apc = "running"

\* parsedEntries.length === 0: return {}
ReturnEmpty ==
    /\ apc = "running"
    /\ numChunks = 0
    /\ apc' = "returned"
    /\ UNCHANGED <<numChunks, ci, submitted, replies, allMoments, finalMoments>>
    /\ UNCHANGED <<overlapVars, chunkVars, silenceVars, parseVars, pipelineVars>>

\* One turn of the loop: chunk i goes to analyzeChunk and its result is merged.
\* Object.entries(null) throws, and so does an analyzeChunk that rejects: the
\* outer catch logs and throws again.
AnalyzeNextChunk ==
    /\ apc = "running"
    /\ ci < numChunks
    /\ \E reply \in Replies :
         LET chunkMoments == analyzeChunk(reply)
         IN  /\ submitted' = Append(submitted, ci)
             /\ replies' = Append(replies, reply)
             /\ IF chunkMoments.threw \/ chunkMoments.null
                THEN /\ apc' = "thrown"
                     /\ UNCHANGED <<ci, allMoments>>
                ELSE /\ allMoments' = MergeMoments(allMoments, ci, chunkMoments.entries)
                     /\ ci' = ci + 1
                     /\ apc' = "running"
    /\ UNCHANGED <<numChunks, finalMoments>>
    /\ UNCHANGED <<overlapVars, chunkVars, silenceVars, parseVars, pipelineVars>>

\* After the loop: finalMoments = removeOverlaps(allMoments); return finalMoments
FinishAnalysis ==
    /\ apc = "running"
    /\ numChunks > 0
    /\ ci = numChunks
    /\ finalMoments' = removeOverlaps(allMoments)
    /\ apc' = "returned"
    /\ UNCHANGED <<numChunks, ci, submitted, replies, allMoments>>
    /\ UNCHANGED <<overlapVars, chunkVars, silenceVars, parseVars, pipelineVars>>

AnalysisNext == ReturnEmpty \/ AnalyzeNextChunk \/ FinishAnalysis

AnalysisSpec == AnalysisInit /\ [][AnalysisNext]_vars

----------------------------------------------------------------------------
(* Properties of analyzeTranscription *)

\* The name of chunk i's proposal k in the shared map, as the text gives it.
ChunkKey(i, k) == "chunk" \o ToString(i) \o "_" \o k

\* The call for the j-th submitted chunk failed: the collaborator raised an
\* error, or its body was not valid JSON.
FailedCall(j) == replies[j].kind \in {"error", "text"}

\* The call for the j-th submitted chunk gave an object of proposals.
SuccessfulCall(j) == replies[j].kind = "object"

\* Every call so far failed or succeeded: no body was the JSON null.
NoNullBody == \A j \in DOMAIN replies : FailedCall(j) \/ SuccessfulCall(j)

\* The entries of the shared map named in chunk i's region.
RegionOf(i) ==
    { n \in DOMAIN allMoments :
        \E k \in ProposalKeys : allMoments[n].key = ChunkKey(i, k) }

\* The proposals of the j-th call are in the shared map, under chunk j-1's keys.
Contributed(j) ==
    \A p \in DOMAIN replies[j].moments :
        \E n \in DOMAIN allMoments :
            /\ allMoments[n].key = ChunkKey(j - 1, replies[j].moments[p].key)
            /\ allMoments[n].val = replies[j].moments[p].val

RECURSIVE ProposalCount(_)
ProposalCount(j) ==
    IF j = 0 THEN 0
    ELSE ProposalCount(j - 1)
           + (IF SuccessfulCall(j) /\ j <= ci THEN Len(replies[j].moments) ELSE 0)

\* C12: when the proposal call of a chunk fails (collaborator error, or a body
\* that is not valid JSON), the chunk contributes nothing and the analysis goes
\* on: analyzeTranscription does not throw, every chunk is submitted, in chunk
\* order, and when it returns the map given to removeOverlaps holds the
\* proposals of every successful chunk and none in the region of a failed one.
C12_FailedChunkContributesNothing ==
    /\ NoNullBody => apc # "thrown"
    /\ \A j \in DOMAIN submitted : submitted[j] = j - 1
    /\ \A j \in DOMAIN replies :
         FailedCall(j) /\ apc # "thrown" => ci >= j /\ RegionOf(j - 1) = {}
    /\ apc = "returned" /\ numChunks > 0 =>
         /\ Len(submitted) = numChunks
         /\ \A j \in DOMAIN replies : SuccessfulCall(j) => Contributed(j)
         /\ finalMoments = removeOverlaps(allMoments)

\* A run of three chunks where the second call fails and the others succeed.
C12_Witness ==
    /\ apc = "returned"
    /\ numChunks = 3
    /\ SuccessfulCall(1) /\ FailedCall(2) /\ SuccessfulCall(3)
    /\ replies[2].kind = "text"
    /\ Len(replies[1].moments) = 1
    /\ Len(replies[3].moments) = 2
    /\ Len(allMoments) = 3

\* C16: the proposals of chunk i are merged under the keys chunk{i}_{key}: the
\* regions of different chunks are disjoint, no proposal overwrites another, and
\* the shared map holds exactly one entry per (chunk, key) proposal, its size
\* being the sum of the per-chunk proposal counts.
C16_ChunkRegionsDisjoint ==
    /\ \A m, n \in DOMAIN allMoments : m # n => allMoments[m].key # allMoments[n].key
    /\ \A i, j \in 0..MaxChunks : i # j => RegionOf(i) \cap RegionOf(j) = {}
    /\ \A j \in DOMAIN replies :
         SuccessfulCall(j) /\ j <= ci =>
            /\ Contributed(j)
            /\ Cardinality(RegionOf(j - 1)) = Len(replies[j].moments)
    /\ Len(allMoments) = ProposalCount(Len(replies))

\* Two chunks propose under the same keys, with different values.
C16_Witness ==
    /\ apc = "returned"
    /\ numChunks = 2
    /\ SuccessfulCall(1) /\ SuccessfulCall(2)
    /\ Len(replies[1].moments) = 2
    /\ Len(replies[2].moments) = 2
    /\ replies[1].moments[1].key = replies[2].moments[1].key
    /\ replies[1].moments[1].val # replies[2].moments[1].val
    /\ Len(allMoments) = 4

----------------------------------------------------------------------------
(* The clip loop of the pipeline: processVideoPipeline (server.js) and run     *)
(* (process_local.js)                                                          *)

\* `output/${baseName}_${key}.mp4`
OutputPath(key) == "output/video_" \o key \o ".mp4"

\* { name: key, path: outputPath, ...moment }: later properties win.
ProcessedClip(key, moment) == moment @@ [name |-> key, path |-> OutputPath(key)]

PipelineInit ==
    /\ OverlapIdle /\ ChunkIdle /\ SilenceIdle /\ ParseIdle /\ AnalysisIdle
    /\ front \in {"server", "cli"}
    /\ \E n \in 0..Len(KeyNames) :
         \E f \in [1..n -> ProposalValues] :
            viralMoments = [ i \in 1..n |-> [key |-> KeyNames[i], val |-> f[i]] ]
    /\ existing \in SUBSET { viralMoments[i].key : i \in DOMAIN viralMoments }
    /\ front = "cli" => existing = {}
    /\ clipIndex = 0
    /\ processedClips = <<>>
    /\ rendered = {}
    /\ failedClip = ""
    /\ report = [saved |-> <<>>]
    /\ qpc = "rendering"

\* server.js: the output file is there already; the clip is pushed, not rendered.
SkipExisting ==
    /\ qpc = "rendering"
    /\ front = "server"
    /\ clipIndex < Len(viralMoments)
    /\ LET clip == viralMoments[clipIndex + 1]
       IN  /\ clip.key \in existing
           /\ processedClips' = Append(processedClips, ProcessedClip(clip.key, clip.val))
    /\ clipIndex' = clipIndex + 1
    /\ UNCHANGED <<front, viralMoments, existing, rendered, failedClip, report, qpc>>
    /\ UNCHANGED <<overlapVars, chunkVars, silenceVars, parseVars, analysisVars>>

\* await processVideo(...) resolves: the clip is pushed (server) or logged (cli).
RenderClip ==
    /\ qpc = "rendering"
    /\ clipIndex < Len(viralMoments)
    /\ LET clip == viralMoments[clipIndex + 1]
       IN  /\ front = "server" => clip.key \notin existing
           /\ rendered' = rendered \cup {clip.key}
           /\ IF front = "server"
              THEN /\ processedClips' =
                        Append(processedClips, ProcessedClip(clip.key, clip.val))
                   /\ UNCHANGED report
              ELSE /\ report' = [report EXCEPT !.saved = Append(@, clip.key)]
                   /\ UNCHANGED processedClips
    /\ clipIndex' = clipIndex + 1
    /\ UNCHANGED <<front, viralMoments, existing, failedClip, qpc>>
    /\ UNCHANGED <<overlapVars, chunkVars, silenceVars, parseVars, analysisVars>>

\* await processVideo(...) rejects: the loop is left for the catch, which
\* answers 500 with the message alone (server) or logs the error (cli).
RenderFails ==
    /\ qpc = "rendering"
    /\ clipIndex < Len(viralMoments)
    /\ LET clip == viralMoments[clipIndex + 1]
       IN  /\ front = "server" => clip.key \notin existing
           /\ failedClip' = clip.key
           /\ report' = IF front = "server"
                        THEN [status |-> 500, error |-> "ffmpeg: " \o clip.key]
                        ELSE report @@ [error |-> "ffmpeg: " \o clip.key]
    /\ qpc' = "done"
    /\ UNCHANGED <<front, viralMoments, existing, clipIndex, processedClips, rendered>>
    /\ UNCHANGED <<overlapVars, chunkVars, silenceVars, parseVars, analysisVars>>

\* The loop ends: res.json({ message, clips: processedClips }), or 'All done!'.
Respond ==
    /\ qpc = "rendering"
    /\ clipIndex = Len(viralMoments)
    /\ report' = IF front = "server"
                 THEN [status |-> 200, message |-> "Video processed successfully",
                       clips |-> processedClips]
                 ELSE report @@ [message |-> "All done!"]
    /\ qpc' = "done"
    /\ UNCHANGED <<front, viralMoments, existing, clipIndex, processedClips, rendered,
                   failedClip>>
    /\ UNCHANGED <<overlapVars, chunkVars, silenceVars, parseVars, analysisVars>>

PipelineNext == SkipExisting \/ RenderClip \/ RenderFails \/ Respond

PipelineSpec == PipelineInit /\ [][PipelineNext]_vars

----------------------------------------------------------------------------
(* Properties of the clip loop *)

\* The keys of the clips the result of the pipeline names.
Yielded ==
    IF "clips" \in DOMAIN report
    THEN { report.clips[i].name : i \in DOMAIN report.clips }
    ELSE IF "saved" \in DOMAIN report
    THEN { report.saved[i] : i \in DOMAIN report.saved }
    ELSE {}

\* The keys of the candidates the pipeline was given.
ClipKeys == { viralMoments[i].key : i \in DOMAIN viralMoments }

\* C13: when the rendering of one clip fails, the result of the pipeline still
\* yields every clip rendered successfully, those before the failed one and
\* those after it, and reports the failed step: no completed clip is discarded
\* and every other clip has been gone through.
C13_FailureKeepsRenderedClips ==
    qpc = "done" /\ failedClip # "" =>
        /\ "error" \in DOMAIN report
        /\ rendered \subseteq Yielded
        /\ rendered \cup existing \cup {failedClip} = ClipKeys

----------------------------------------------------------------------------
(* The computations together: each run exercises one of them. *)

Init == OverlapInit \/ ChunkInit \/ SilenceInit \/ ParseInit \/ AnalysisInit \/ PipelineInit

Next == OverlapNext \/ ChunkNext \/ SilenceNext \/ ParseNext \/ AnalysisNext \/ PipelineNext

Spec == Init /\ [][Next]_vars

====
